---- MODULE Spec2Model ----
(***************************************************************************)
(* xstd::bit_set<N, Block> (include/xstd/bit_set.hpp): a fixed-capacity    *)
(* ordered set of the integers [0, N) packed into an array of unsigned     *)
(* words.  The template parameters are chosen once, in Init, and never     *)
(* change; a word is a natural number below 2^block_size.                  *)
(***************************************************************************)
EXTENDS Integers, Sequences, FiniteSets, TLC

VARIABLES
    M,              \* the capacity N of bit_set<N, Block>
    block_size,     \* std::numeric_limits<Block>::digits
    m_data,         \* this container's word array, indexed from 0
    other,          \* the word array of a second container of the same type
    elems,          \* history: the abstract set the calls on m_data have built
    ret,            \* the last call: its name, argument and return value
    it              \* a proxy_iterator into this container: (m_bs, m_value)

vars == <<M, block_size, m_data, other, elems, ret, it>>

\* Bounds of the model.
MaxN == 7
MaxPairN == 5
MaxBlockSize == 3

BlockSizes == 2..MaxBlockSize

-----------------------------------------------------------------------------
(* The unsigned word type Block and C++'s operators on it.                 *)

Pow2(n) == 2 ^ n

\* static_cast<block_type>(x)
Trunc(x) == x % Pow2(block_size)

RECURSIVE BitAndW(_, _, _)
BitAndW(x, y, k) ==
    IF k = 0 THEN 0
    ELSE (x % 2) * (y % 2) + 2 * BitAndW(x \div 2, y \div 2, k - 1)

\* x & y
And(x, y) == BitAndW(x, y, block_size)

\* x | y
Or(x, y) == x + y - And(x, y)

\* x ^ y
Xor(x, y) == x + y - 2 * And(x, y)

\* static_cast<block_type>(~x)
Not(x) == Pow2(block_size) - 1 - x

\* static_cast<block_type>(x << n), 0 <= n < block_size
Shl(x, n) == Trunc(x * Pow2(n))

\* static_cast<block_type>(x >> n), 0 <= n < block_size
Shr(x, n) == x \div Pow2(n)

RECURSIVE BitWidth(_)
BitWidth(x) == IF x = 0 THEN 0 ELSE 1 + BitWidth(x \div 2)

\* builtin::clznz: the number of leading zero bits of a nonzero word
clznz(x) == block_size - BitWidth(x)

RECURSIVE ctznz(_)
\* builtin::ctznz: the number of trailing zero bits of a nonzero word
ctznz(x) == IF x = 0 THEN block_size ELSE IF x % 2 = 1 THEN 0 ELSE 1 + ctznz(x \div 2)

RECURSIVE popcount(_)
\* builtin::popcount
popcount(x) == IF x = 0 THEN 0 ELSE (x % 2) + popcount(x \div 2)

-----------------------------------------------------------------------------
(* The static members of bit_set.                                          *)

num_logical_blocks == (M - 1 + block_size) \div block_size

num_storage_blocks == IF num_logical_blocks > 1 THEN num_logical_blocks ELSE 1

num_bits == num_logical_blocks * block_size

num_excess_bits == num_bits - M

zero == 0

ones == Pow2(block_size) - 1

no_excess_bits == Shl(ones, num_excess_bits)

unit == Shl(1, block_size - 1)

single_bit_mask(n) == Shr(unit, n)

is_valid(n) == 0 <= n /\ n < M

is_range(n) == 0 <= n /\ n <= M

\* which with the slots numbered from the smallest values up
which_ascending(n) ==
    IF num_logical_blocks = 1 THEN 0
    ELSE n \div block_size

which(n) ==
    IF num_logical_blocks = 1 THEN 0
    ELSE num_logical_blocks - 1 - n \div block_size

where(n) ==
    IF num_logical_blocks = 1 THEN n
    ELSE n % block_size

\* Block m_data[num_storage_blocks]{}
ZeroData == [i \in 0..(num_storage_blocks - 1) |-> zero]

-----------------------------------------------------------------------------
(* Observers.                                                              *)

contains(d, x) ==
    IF num_logical_blocks >= 1
    THEN And(d[which(x)], single_bit_mask(where(x))) # 0
    ELSE FALSE

\* empty without the branch for a container of no logical block
empty_without_zero_blocks(d) ==
    IF num_logical_blocks = 1 THEN d[0] = 0
    ELSE IF num_logical_blocks = 2 THEN ~(d[0] # 0 \/ d[1] # 0)
    ELSE IF num_logical_blocks >= 3 THEN \A i \in 0..(num_storage_blocks - 1) : d[i] = 0
    ELSE FALSE

empty(d) ==
    IF num_logical_blocks = 0 THEN TRUE
    ELSE IF num_logical_blocks = 1 THEN d[0] = 0
    ELSE IF num_logical_blocks = 2 THEN ~(d[0] # 0 \/ d[1] # 0)
    ELSE \A i \in 0..(num_storage_blocks - 1) : d[i] = 0

AllOnesFrom(d, first) == \A i \in first..(num_storage_blocks - 1) : d[i] = ones

\* full that expects every word, slot 0 included, to be all ones
full_all_ones(d) ==
    IF num_logical_blocks = 0 THEN TRUE ELSE AllOnesFrom(d, 0)

full(d) ==
    IF num_excess_bits = 0
    THEN IF num_logical_blocks = 0 THEN TRUE
         ELSE IF num_logical_blocks = 1 THEN d[0] = ones
         ELSE IF num_logical_blocks = 2 THEN d[0] = ones /\ d[1] = ones
         ELSE AllOnesFrom(d, 0)
    ELSE IF num_logical_blocks = 1 THEN d[0] = no_excess_bits
         ELSE IF num_logical_blocks = 2 THEN d[0] = no_excess_bits /\ d[1] = ones
         ELSE d[0] = no_excess_bits /\ AllOnesFrom(d, 1)

RECURSIVE accumulate(_, _, _)
\* std::accumulate over m_data[i .. num_storage_blocks) of sum + popcount(block)
accumulate(d, i, sum) ==
    IF i >= num_storage_blocks THEN sum
    ELSE accumulate(d, i + 1, sum + popcount(d[i]))

\* ssize with the accumulation started one slot late
ssize_skips_first(d) ==
    IF num_logical_blocks = 0 THEN 0
    ELSE IF num_logical_blocks = 1 THEN popcount(d[0])
    ELSE IF num_logical_blocks = 2 THEN popcount(d[0]) + popcount(d[1])
    ELSE accumulate(d, 1, 0)

ssize(d) ==
    IF num_logical_blocks = 0 THEN 0
    ELSE IF num_logical_blocks = 1 THEN popcount(d[0])
    ELSE IF num_logical_blocks = 2 THEN popcount(d[0]) + popcount(d[1])
    ELSE accumulate(d, 0, 0)

size(d) == ssize(d)

-----------------------------------------------------------------------------
(* Mutators: each yields the new word array.                               *)

\* clear_excess_bits that leaves the words as they are
clear_excess_bits_skipped(d) == d

clear_excess_bits(d) ==
    IF num_excess_bits # 0
    THEN [d EXCEPT ![0] = And(@, no_excess_bits)]
    ELSE d

\* insert that flips the bit instead of setting it
insert_toggles(d, x) ==
    [data   |-> IF num_logical_blocks >= 1
                THEN [d EXCEPT ![which(x)] = Xor(@, single_bit_mask(where(x)))]
                ELSE d,
     second |-> TRUE]

\* insert(x): the words afterwards and the bool of the returned pair
insert(d, x) ==
    [data   |-> IF num_logical_blocks >= 1
                THEN [d EXCEPT ![which(x)] = Or(@, single_bit_mask(where(x)))]
                ELSE d,
     second |-> TRUE]

\* erase(x): the words afterwards and the returned size_type
erase(d, x) ==
    [data   |-> IF num_logical_blocks >= 1
                THEN [d EXCEPT ![which(x)] = And(@, Not(single_bit_mask(where(x))))]
                ELSE d,
     result |-> 1]

replace(d, x) ==
    IF num_logical_blocks >= 1
    THEN [d EXCEPT ![which(x)] = Xor(@, single_bit_mask(where(x)))]
    ELSE d

RECURSIVE insert_range(_, _, _)
\* insert(first, last): std::for_each over the sequence, insert(x) for each x,
\* from its i-th value on
insert_range(d, seq, i) ==
    IF i > Len(seq) THEN d
    ELSE insert_range(insert(d, seq[i]).data, seq, i + 1)

\* bit_set(first, last) that passes over the first value of the sequence
construct_from_second(seq) == insert_range(ZeroData, seq, 2)

\* bit_set(first, last) and bit_set(std::initializer_list): the zero-initialized
\* words, then insert(first, last)
construct(seq) == insert_range(ZeroData, seq, 1)

RECURSIVE fill_n(_, _, _, _)
\* std::fill_n(&d[first], count, value)
fill_n(d, first, count, value) ==
    IF count <= 0 THEN d
    ELSE fill_n([d EXCEPT ![first] = value], first + 1, count - 1, value)

fill(d) ==
    IF num_excess_bits = 0
    THEN IF num_logical_blocks = 1 THEN [d EXCEPT ![0] = ones]
         ELSE IF num_logical_blocks = 2 THEN [d EXCEPT ![0] = ones, ![1] = ones]
         ELSE IF num_logical_blocks >= 3 THEN fill_n(d, 0, num_logical_blocks, ones)
         ELSE d
    ELSE IF num_logical_blocks = 1 THEN [d EXCEPT ![0] = no_excess_bits]
         ELSE IF num_logical_blocks = 2 THEN [d EXCEPT ![0] = no_excess_bits, ![1] = ones]
         ELSE fill_n([d EXCEPT ![0] = no_excess_bits], 1, num_logical_blocks - 1, ones)

clear(d) ==
    IF num_logical_blocks = 1 THEN [d EXCEPT ![0] = zero]
    ELSE IF num_logical_blocks = 2 THEN [d EXCEPT ![0] = zero, ![1] = zero]
    ELSE IF num_logical_blocks >= 3 THEN fill_n(d, 0, num_logical_blocks, zero)
    ELSE d

RECURSIVE complement_loop(_, _)
\* for (auto& block : m_data) block = static_cast<block_type>(~block)
complement_loop(d, i) ==
    IF i >= num_storage_blocks THEN d
    ELSE complement_loop([d EXCEPT ![i] = Not(@)], i + 1)

\* complement that leaves the flipped excess bits set
complement_keeps_excess_bits(d) ==
    IF num_logical_blocks = 1 THEN [d EXCEPT ![0] = Not(@)]
    ELSE IF num_logical_blocks = 2 THEN [d EXCEPT ![0] = Not(@), ![1] = Not(@)]
    ELSE IF num_logical_blocks >= 3 THEN complement_loop(d, 0)
    ELSE d

complement(d) ==
    clear_excess_bits(
        IF num_logical_blocks = 1 THEN [d EXCEPT ![0] = Not(@)]
        ELSE IF num_logical_blocks = 2 THEN [d EXCEPT ![0] = Not(@), ![1] = Not(@)]
        ELSE IF num_logical_blocks >= 3 THEN complement_loop(d, 0)
        ELSE d)

-----------------------------------------------------------------------------
(* The shift engine: operator<<= and operator>>=.                          *)

RECURSIVE copy_n(_, _, _, _)
\* std::copy_n(&d[src], count, &d[dst]): copies forward, one word at a time
copy_n(d, src, count, dst) ==
    IF count <= 0 THEN d
    ELSE copy_n([d EXCEPT ![dst] = d[src]], src + 1, count - 1, dst + 1)

RECURSIVE copy_backward(_, _, _, _)
\* std::copy_backward(&d[first], &d[last], &d[d_last]): copies from the back
copy_backward(d, first, last, d_last) ==
    IF last <= first THEN d
    ELSE copy_backward([d EXCEPT ![d_last - 1] = d[last - 1]], first, last - 1, d_last - 1)

RECURSIVE shift_right_loop(_, _, _, _, _)
\* for (i = num_logical_blocks - 1; i > n_block; --i) m_data[i] = ... | ...
shift_right_loop(d, i, n_block, L_shift, R_shift) ==
    IF i > n_block
    THEN shift_right_loop(
             [d EXCEPT ![i] = Or(Shl(d[i - n_block], L_shift),
                                 Shr(d[i - n_block - 1], R_shift))],
             i - 1, n_block, L_shift, R_shift)
    ELSE d

\* operator>>=(n)
shift_right(d, n) ==
    IF num_logical_blocks = 1
    THEN [d EXCEPT ![0] = Shl(@, n)]
    ELSE IF num_logical_blocks >= 2
    THEN IF n = 0 THEN d
         ELSE LET n_block == n \div block_size
                  L_shift == n % block_size
                  R_shift == block_size - L_shift
                  looped  == shift_right_loop(d, num_logical_blocks - 1, n_block,
                                              L_shift, R_shift)
                  shifted ==
                      IF L_shift = 0
                      THEN copy_backward(d, 0, num_storage_blocks - n_block,
                                         num_storage_blocks)
                      ELSE [looped EXCEPT ![n_block] = Shl(looped[0], L_shift)]
              IN  fill_n(shifted, 0, n_block, zero)
    ELSE d

RECURSIVE shift_left_loop_no_carry(_, _, _, _, _)
\* shift_left_loop without the bits carried in from the neighbouring word
shift_left_loop_no_carry(d, i, n_block, R_shift, L_shift) ==
    IF i < num_logical_blocks - 1 - n_block
    THEN shift_left_loop_no_carry(
             [d EXCEPT ![i] = Shr(d[i + n_block], R_shift)],
             i + 1, n_block, R_shift, L_shift)
    ELSE d

RECURSIVE shift_left_loop(_, _, _, _, _)
\* for (i = 0; i < num_logical_blocks - 1 - n_block; ++i) m_data[i] = ... | ...
shift_left_loop(d, i, n_block, R_shift, L_shift) ==
    IF i < num_logical_blocks - 1 - n_block
    THEN shift_left_loop(
             [d EXCEPT ![i] = Or(Shr(d[i + n_block], R_shift),
                                 Shl(d[i + n_block + 1], L_shift))],
             i + 1, n_block, R_shift, L_shift)
    ELSE d

\* operator<<= that moves the values down instead of up
shift_left_reversed(d, n) == shift_right(d, n)

\* operator<<=(n)
shift_left(d, n) ==
    IF num_logical_blocks = 1
    THEN clear_excess_bits([d EXCEPT ![0] = Shr(@, n)])
    ELSE IF num_logical_blocks >= 2
    THEN IF n = 0 THEN d
         ELSE LET n_block == n \div block_size
                  R_shift == n % block_size
                  L_shift == block_size - R_shift
                  looped  == shift_left_loop(d, 0, n_block, R_shift, L_shift)
                  shifted ==
                      IF R_shift = 0
                      THEN copy_n(d, n_block, num_logical_blocks - n_block, 0)
                      ELSE [looped EXCEPT ![num_logical_blocks - 1 - n_block] =
                                Shr(looped[num_logical_blocks - 1], R_shift)]
              IN  clear_excess_bits(
                      fill_n(shifted, num_storage_blocks - n_block, n_block, zero))
    ELSE clear_excess_bits(d)

-----------------------------------------------------------------------------
(* The scan engine and iteration.                                          *)

RECURSIVE find_first_loop(_, _, _)
\* for (i = num_logical_blocks - 1; i >= 0; --i, n += block_size)
find_first_loop(d, i, n) ==
    IF i >= 0
    THEN IF d[i] # 0 THEN n + clznz(d[i])
         ELSE find_first_loop(d, i - 1, n + block_size)
    ELSE M

find_first(d) ==
    IF num_logical_blocks = 1
    THEN IF d[0] # 0 THEN clznz(d[0]) ELSE M
    ELSE IF num_logical_blocks >= 2
    THEN find_first_loop(d, num_logical_blocks - 1, 0)
    ELSE M

RECURSIVE find_next_loop(_, _, _)
\* for (; i >= 0; --i, n += block_size)
find_next_loop(d, i, n) ==
    IF i >= 0
    THEN IF d[i] # 0 THEN n + clznz(d[i])
         ELSE find_next_loop(d, i - 1, n + block_size)
    ELSE M

\* find_next that steps a whole word ahead after a partly scanned word
find_next_overshoots(d, n) ==
    IF n = M THEN M
    ELSE IF num_logical_blocks = 1
    THEN LET block == Shl(d[0], n)
         IN  IF block # 0 THEN n + clznz(block) ELSE M
    ELSE IF num_logical_blocks >= 2
    THEN LET i      == which(n)
             offset == where(n)
             block  == Shl(d[i], offset)
         IN  IF offset # 0
             THEN IF block # 0 THEN n + clznz(block)
                  ELSE find_next_loop(d, i - 1, n + block_size)
             ELSE find_next_loop(d, i, n)
    ELSE M

find_next(d, n) ==
    IF n = M THEN M
    ELSE IF num_logical_blocks = 1
    THEN LET block == Shl(d[0], n)
         IN  IF block # 0 THEN n + clznz(block) ELSE M
    ELSE IF num_logical_blocks >= 2
    THEN LET i      == which(n)
             offset == where(n)
             block  == Shl(d[i], offset)
         IN  IF offset # 0
             THEN IF block # 0 THEN n + clznz(block)
                  ELSE find_next_loop(d, i - 1, n + (block_size - offset))
             ELSE find_next_loop(d, i, n)
    ELSE M

\* begin() and end(): the positions of the two iterators
begin(d) == find_first(d)

end == M

\* proxy_iterator::operator++
increment(d, m_value) == find_next(d, m_value + 1)

\* The value of a run that tripped an assertion.
Aborted == -1

RECURSIVE for_each(_, _, _, _)
\* for (it = first; it != end(); ++it) visit *it: the values visited, in order.
\* operator* and operator++ assert is_valid(m_value); steps caps the loop at one
\* more round than a container can hold values.
for_each(d, first, visited, steps) ==
    IF first = end THEN visited
    ELSE IF ~is_valid(first) \/ steps = 0 THEN Append(visited, Aborted)
    ELSE for_each(d, increment(d, first), Append(visited, first), steps - 1)

\* for (auto x : bs): the sequence of values a range-for over the container sees
iterate(d) == for_each(d, begin(d), <<>>, M + 1)

\* upper_bound that starts its scan at x itself
upper_bound_inclusive(d, x) == find_next(d, x)

\* upper_bound(x): the position of the returned iterator
upper_bound(d, x) == find_next(d, x + 1)

\* lower_bound(x): the position of the returned iterator
lower_bound(d, x) == find_next(d, x)

\* n - builtin::ctznz(block); ctznz asserts block != 0
minus_ctznz(n, block) == IF block = 0 THEN Aborted ELSE n - ctznz(block)

RECURSIVE find_prev_loop(_, _, _)
\* for (; i < num_storage_blocks - 1; ++i, n -= block_size), then the last word
find_prev_loop(d, i, n) ==
    IF i < num_storage_blocks - 1
    THEN IF d[i] # 0 THEN minus_ctznz(n, d[i])
         ELSE find_prev_loop(d, i + 1, n - block_size)
    ELSE minus_ctznz(n, d[num_storage_blocks - 1])

\* find_prev whose scan never leaves the word of n
find_prev_one_word(d, n) ==
    IF ~is_valid(n) THEN Aborted
    ELSE IF num_logical_blocks = 1
    THEN minus_ctznz(n, Shr(d[0], block_size - 1 - n))
    ELSE minus_ctznz(n, Shr(d[which(n)], block_size - 1 - where(n)))

\* find_prev(n); assert(is_valid(n))
find_prev(d, n) ==
    IF ~is_valid(n) THEN Aborted
    ELSE IF num_logical_blocks = 1
    THEN minus_ctznz(n, Shr(d[0], block_size - 1 - n))
    ELSE IF num_logical_blocks >= 2
    THEN LET i      == which(n)
             offset == block_size - 1 - where(n)
             block  == Shr(d[i], offset)
         IN  IF offset # 0
             THEN IF block # 0 THEN minus_ctznz(n, block)
                  ELSE find_prev_loop(d, i + 1, n - (block_size - offset))
             ELSE find_prev_loop(d, i, n)
    ELSE minus_ctznz(n, d[num_storage_blocks - 1])

\* operator++ that expects the value it stands on to be a member still
increment_from_member(d, m_value) ==
    IF ~is_valid(m_value) \/ ~contains(d, m_value) THEN Aborted
    ELSE find_next(d, m_value + 1)

\* proxy_iterator::operator++, with its two assertions
increment_checked(d, m_value) ==
    IF ~is_valid(m_value) THEN Aborted
    ELSE LET v == increment(d, m_value)
         IN  IF is_valid(v - 1) THEN v ELSE Aborted

\* operator-- that searches from m_value itself
decrement_stays(d, m_value) ==
    IF ~is_valid(m_value - 1) THEN Aborted
    ELSE LET v == find_prev(d, m_value)
         IN  IF is_valid(v) THEN v ELSE Aborted

\* proxy_iterator::operator--, with its two assertions
decrement(d, m_value) ==
    IF ~is_valid(m_value - 1) THEN Aborted
    ELSE LET v == find_prev(d, m_value - 1)
         IN  IF is_valid(v) THEN v ELSE Aborted

RECURSIVE reverse_for_each(_, _, _, _)
\* for (r = rbegin(); r != rend(); ++r) visit *r, r a std::reverse_iterator:
\* *r is *--copy of the base, ++r is --base, and r != rend() is base != begin()
reverse_for_each(d, current, visited, steps) ==
    IF current = begin(d) THEN visited
    ELSE IF decrement(d, current) = Aborted \/ steps = 0 THEN Append(visited, Aborted)
    ELSE reverse_for_each(d, decrement(d, current),
                          Append(visited, decrement(d, current)), steps - 1)

\* the sequence of values a loop from rbegin() to rend() sees
reverse_iterate(d) == reverse_for_each(d, end, <<>>, M + 1)

RECURSIVE find_front_loop(_, _, _)
\* for (i = num_storage_blocks - 1; i > 0; --i, n += block_size), then slot 0
find_front_loop(d, i, n) ==
    IF i > 0
    THEN IF d[i] # 0 THEN n + clznz(d[i])
         ELSE find_front_loop(d, i - 1, n + block_size)
    ELSE n + clznz(d[0])

\* find_front(), the position front() refers to; assert(!empty())
find_front(d) ==
    IF empty(d) THEN Aborted
    ELSE IF num_logical_blocks = 1 THEN clznz(d[0])
    ELSE IF num_logical_blocks = 2
    THEN IF d[1] # 0 THEN clznz(d[1]) ELSE clznz(d[0]) + block_size
    ELSE find_front_loop(d, num_storage_blocks - 1, 0)

RECURSIVE find_back_loop(_, _, _)
\* for (i = 0; i < num_storage_blocks - 1; ++i, n -= block_size), then the last
find_back_loop(d, i, n) ==
    IF i < num_storage_blocks - 1
    THEN IF d[i] # 0 THEN n - ctznz(d[i])
         ELSE find_back_loop(d, i + 1, n - block_size)
    ELSE n - ctznz(d[num_storage_blocks - 1])

\* find_back that counts down from the capacity instead of the bit count
find_back_from_capacity(d) ==
    IF empty(d) THEN Aborted
    ELSE IF num_logical_blocks = 1 THEN M - 1 - ctznz(d[0])
    ELSE IF num_logical_blocks = 2
    THEN IF d[0] # 0 THEN M - 1 - ctznz(d[0])
         ELSE block_size - 1 - ctznz(d[1])
    ELSE find_back_loop(d, 0, M - 1)

\* find_back(), the position back() refers to; assert(!empty())
find_back(d) ==
    IF empty(d) THEN Aborted
    ELSE IF num_logical_blocks = 1 THEN num_bits - 1 - ctznz(d[0])
    ELSE IF num_logical_blocks = 2
    THEN IF d[0] # 0 THEN num_bits - 1 - ctznz(d[0])
         ELSE block_size - 1 - ctznz(d[1])
    ELSE find_back_loop(d, 0, num_bits - 1)

-----------------------------------------------------------------------------
(* Stream output and input.  A stream is a sequence of characters.         *)

digits == <<"0", "1", "2", "3", "4", "5", "6", "7", "8", "9">>

RECURSIVE format_int(_)
\* ostr << x for an int x: its decimal digits, after a '-' when x is negative
format_int(x) ==
    IF x < 0 THEN <<"-">> \o format_int(0 - x)
    ELSE IF x < 10 THEN <<digits[x + 1]>>
    ELSE Append(format_int(x \div 10), digits[(x % 10) + 1])

RECURSIVE write_loop(_, _, _, _)
\* for (auto const x : bs): a ',' before every value but the first, then x
write_loop(xs, i, first, ostr) ==
    IF i > Len(xs) THEN ostr
    ELSE write_loop(xs, i + 1, FALSE,
                    (IF first THEN ostr ELSE Append(ostr, ",")) \o format_int(xs[i]))

\* operator<<(ostr, bs): the characters written
write(d) == Append(write_loop(iterate(d), 1, TRUE, <<"[">>), "]")

is_digit(c) == \E k \in 1..10 : digits[k] = c

\* istr >> x that takes a single digit
read_one_digit(istr, pos, x) ==
    IF pos <= Len(istr) /\ is_digit(istr[pos])
    THEN [x |-> (CHOOSE k \in 1..10 : digits[k] = istr[pos]) - 1, pos |-> pos + 1]
    ELSE [x |-> x, pos |-> pos]

RECURSIVE read_int(_, _, _)
\* istr >> x for an int x: the digits from pos on, and the position after them
read_int(istr, pos, x) ==
    IF pos <= Len(istr) /\ is_digit(istr[pos])
    THEN read_int(istr, pos + 1,
                  10 * x + (CHOOSE k \in 1..10 : digits[k] = istr[pos]) - 1)
    ELSE [x |-> x, pos |-> pos]

RECURSIVE read_loop(_, _, _, _)
\* for (first = true; c != ']'; istr >> c), c = istr[pos]: the words of bs
\* afterwards, and whether the loop ran to its end.  A failed assertion, and
\* an extraction that finds no character or no digit, end the run.
read_loop(istr, pos, first, d) ==
    IF pos > Len(istr) THEN [data |-> d, completed |-> FALSE]
    ELSE IF istr[pos] = "]" THEN [data |-> d, completed |-> TRUE]
    ELSE IF first # (istr[pos] # ",") THEN [data |-> d, completed |-> FALSE]
    ELSE LET start == IF first THEN pos ELSE pos + 1
             r     == read_int(istr, start, 0)
         IN  IF r.pos = start \/ ~is_valid(r.x) THEN [data |-> d, completed |-> FALSE]
             ELSE read_loop(istr, r.pos, FALSE, insert(d, r.x).data)

\* operator>>(istr, bs): the words of bs afterwards, and whether it returned
read(istr, d) ==
    IF Len(istr) = 0 \/ istr[1] # "[" THEN [data |-> d, completed |-> FALSE]
    ELSE read_loop(istr, 2, TRUE, d)

-----------------------------------------------------------------------------
(* Set algebra, swap and the ordering of two containers.                   *)

RECURSIVE and_loop(_, _, _)
and_loop(d, o, i) ==
    IF i < num_logical_blocks
    THEN and_loop([d EXCEPT ![i] = And(@, o[i])], o, i + 1)
    ELSE d

\* operator&=
and_assign(d, o) ==
    IF num_logical_blocks = 1 THEN [d EXCEPT ![0] = And(@, o[0])]
    ELSE IF num_logical_blocks = 2
    THEN [d EXCEPT ![0] = And(@, o[0]), ![1] = And(@, o[1])]
    ELSE and_loop(d, o, 0)

RECURSIVE or_loop(_, _, _)
or_loop(d, o, i) ==
    IF i < num_logical_blocks
    THEN or_loop([d EXCEPT ![i] = Or(@, o[i])], o, i + 1)
    ELSE d

\* operator|=
or_assign(d, o) ==
    IF num_logical_blocks = 1 THEN [d EXCEPT ![0] = Or(@, o[0])]
    ELSE IF num_logical_blocks = 2
    THEN [d EXCEPT ![0] = Or(@, o[0]), ![1] = Or(@, o[1])]
    ELSE or_loop(d, o, 0)

RECURSIVE xor_loop(_, _, _)
xor_loop(d, o, i) ==
    IF i < num_logical_blocks
    THEN xor_loop([d EXCEPT ![i] = Xor(@, o[i])], o, i + 1)
    ELSE d

\* operator^=
xor_assign(d, o) ==
    IF num_logical_blocks = 1 THEN [d EXCEPT ![0] = Xor(@, o[0])]
    ELSE IF num_logical_blocks = 2
    THEN [d EXCEPT ![0] = Xor(@, o[0]), ![1] = Xor(@, o[1])]
    ELSE xor_loop(d, o, 0)

RECURSIVE minus_loop(_, _, _)
minus_loop(d, o, i) ==
    IF i < num_logical_blocks
    THEN minus_loop([d EXCEPT ![i] = And(@, Not(o[i]))], o, i + 1)
    ELSE d

\* operator-= that keeps what the operands share instead of removing it
minus_assign_keeps_common(d, o) == and_assign(d, o)

\* operator-=
minus_assign(d, o) ==
    IF num_logical_blocks = 1 THEN [d EXCEPT ![0] = And(@, Not(o[0]))]
    ELSE IF num_logical_blocks = 2
    THEN [d EXCEPT ![0] = And(@, Not(o[0])), ![1] = And(@, Not(o[1]))]
    ELSE minus_loop(d, o, 0)

\* operator~(lhs): nrv{lhs}; nrv.complement(); return nrv
op_not(lhs) == complement(lhs)

\* operator&(lhs, rhs): nrv{lhs}; nrv &= rhs; return nrv
op_and(lhs, rhs) == and_assign(lhs, rhs)

\* operator|(lhs, rhs)
op_or(lhs, rhs) == or_assign(lhs, rhs)

\* operator^(lhs, rhs)
op_xor(lhs, rhs) == xor_assign(lhs, rhs)

\* operator-(lhs, rhs)
op_minus(lhs, rhs) == minus_assign(lhs, rhs)

\* swap(other): the pair (this, other) afterwards.  With no logical block
\* nothing is exchanged.
swap(d, o) ==
    IF num_logical_blocks >= 1 THEN <<o, d>> ELSE <<d, o>>

\* x <=> y on two words
word_three_way(x, y) ==
    IF x < y THEN "less" ELSE IF x > y THEN "greater" ELSE "equal"

RECURSIVE lexicographical_compare_three_way(_, _, _)
\* detail::lexicographical_compare_three_way over two reversed word arrays:
\* i runs from the last slot down to slot 0
lexicographical_compare_three_way(a, b, i) ==
    IF i < 0 THEN "equal"
    ELSE IF word_three_way(a[i], b[i]) # "equal" THEN word_three_way(a[i], b[i])
    ELSE lexicographical_compare_three_way(a, b, i - 1)

\* operator<=> that compares slot 0 only
three_way_slot0(d, o) ==
    IF num_logical_blocks = 0 THEN "equal" ELSE word_three_way(o[0], d[0])

\* operator<=>: *this <=> other
three_way(d, o) ==
    IF num_logical_blocks = 0 THEN "equal"
    ELSE IF num_logical_blocks <= 1 THEN word_three_way(o[0], d[0])
    ELSE IF num_logical_blocks = 2
    THEN IF word_three_way(o[1], d[1]) # "equal"
         THEN word_three_way(o[1], d[1])
         ELSE word_three_way(o[0], d[0])
    ELSE lexicographical_compare_three_way(o, d, num_storage_blocks - 1)

\* operator==
equal_to(d, o) ==
    IF num_logical_blocks = 0 THEN TRUE
    ELSE IF num_logical_blocks <= 1 THEN d[0] = o[0]
    ELSE IF num_logical_blocks = 2 THEN <<d[0], d[1]>> = <<o[0], o[1]>>
    ELSE \A i \in 0..(num_storage_blocks - 1) : d[i] = o[i]

\* is_subset_of that looks at slot 0 only
is_subset_of_slot0(lhs, rhs) ==
    IF num_logical_blocks = 0 THEN TRUE
    ELSE And(lhs[0], Not(rhs[0])) = 0

is_subset_of(lhs, rhs) ==
    IF num_logical_blocks = 0 THEN TRUE
    ELSE IF num_logical_blocks = 1 THEN And(lhs[0], Not(rhs[0])) = 0
    ELSE IF num_logical_blocks = 2
    THEN And(lhs[0], Not(rhs[0])) = 0 /\ And(lhs[1], Not(rhs[1])) = 0
    ELSE \A i \in 0..(num_storage_blocks - 1) : And(lhs[i], Not(rhs[i])) = 0

intersects(lhs, rhs) ==
    IF num_logical_blocks = 0 THEN FALSE
    ELSE IF num_logical_blocks = 1 THEN And(lhs[0], rhs[0]) # 0
    ELSE IF num_logical_blocks = 2
    THEN And(lhs[0], rhs[0]) # 0 \/ And(lhs[1], rhs[1]) # 0
    ELSE ~(\A i \in 0..(num_storage_blocks - 1) : And(lhs[i], rhs[i]) = 0)

is_superset_of(lhs, rhs) == is_subset_of(rhs, lhs)

is_proper_subset_of(lhs, rhs) == is_subset_of(lhs, rhs) /\ ~is_subset_of(rhs, lhs)

is_proper_superset_of(lhs, rhs) == is_superset_of(lhs, rhs) /\ ~is_superset_of(rhs, lhs)

disjoint(lhs, rhs) == ~intersects(lhs, rhs)

-----------------------------------------------------------------------------
(* The state machine of one container.                                     *)

NoCall == [op |-> "none", arg |-> 0, was |-> FALSE, result |-> 0, answer |-> FALSE]

\* proxy_iterator() = default: an iterator into no container
NoIterator == [m_bs |-> "null", m_value |-> 0]

\* proxy_iterator{this, v}
Iterator(v) == [m_bs |-> "this", m_value |-> v]

Call(op, arg, was, result) ==
    [op |-> op, arg |-> arg, was |-> was, result |-> result, answer |-> FALSE]

\* a call of a predicate on two containers: the bool it returned
Answer(op, answer) == [NoCall EXCEPT !.op = op, !.answer = answer]

Init ==
    /\ M \in 0..MaxN
    /\ block_size \in BlockSizes
    /\ m_data = ZeroData
    /\ other = ZeroData
    /\ elems = {}
    /\ ret = NoCall
    /\ it = NoIterator

Insert(x) ==
    /\ is_valid(x)
    /\ m_data' = insert(m_data, x).data
    /\ elems' = elems \cup {x}
    /\ ret' = Call("insert", x, x \in elems, insert(m_data, x).second)
    /\ UNCHANGED <<M, block_size, other, it>>

Erase(x) ==
    /\ is_valid(x)
    /\ m_data' = erase(m_data, x).data
    /\ elems' = elems \ {x}
    /\ ret' = Call("erase", x, x \in elems, erase(m_data, x).result)
    /\ UNCHANGED <<M, block_size, other, it>>

Replace(x) ==
    /\ is_valid(x)
    /\ m_data' = replace(m_data, x)
    /\ elems' = (elems \ {x}) \cup ({x} \ elems)
    /\ ret' = Call("replace", x, x \in elems, 0)
    /\ UNCHANGED <<M, block_size, other, it>>

Fill ==
    /\ m_data' = fill(m_data)
    /\ elems' = 0..(M - 1)
    /\ ret' = Call("fill", 0, FALSE, 0)
    /\ UNCHANGED <<M, block_size, other, it>>

Clear ==
    /\ m_data' = clear(m_data)
    /\ elems' = {}
    /\ ret' = Call("clear", 0, FALSE, 0)
    /\ UNCHANGED <<M, block_size, other, it>>

Complement ==
    /\ m_data' = complement(m_data)
    /\ elems' = (0..(M - 1)) \ elems
    /\ ret' = Call("complement", 0, FALSE, 0)
    /\ UNCHANGED <<M, block_size, other, it>>

ShiftLeft(n) ==
    /\ is_valid(n)
    /\ m_data' = shift_left(m_data, n)
    /\ elems' = {v + n : v \in elems} \cap (0..(M - 1))
    /\ ret' = Call("shift_left", n, FALSE, 0)
    /\ UNCHANGED <<M, block_size, other, it>>

ShiftRight(n) ==
    /\ is_valid(n)
    /\ m_data' = shift_right(m_data, n)
    /\ elems' = {v - n : v \in elems} \cap (0..(M - 1))
    /\ ret' = Call("shift_right", n, FALSE, 0)
    /\ UNCHANGED <<M, block_size, other, it>>

Contains(x) ==
    /\ is_valid(x)
    /\ ret' = Call("contains", x, x \in elems, contains(m_data, x))
    /\ UNCHANGED <<M, block_size, m_data, other, elems, it>>

Size ==
    /\ ret' = Call("size", 0, FALSE, size(m_data))
    /\ UNCHANGED <<M, block_size, m_data, other, elems, it>>

Iterate ==
    /\ ret' = Call("iterate", 0, FALSE, iterate(m_data))
    /\ UNCHANGED <<M, block_size, m_data, other, elems, it>>

Next ==
    \/ \E x \in 0..(M - 1) : Insert(x)
    \/ \E x \in 0..(M - 1) : Erase(x)
    \/ \E x \in 0..(M - 1) : Replace(x)
    \/ Fill
    \/ Clear
    \/ Complement
    \/ \E n \in 0..(M - 1) : ShiftLeft(n)
    \/ \E n \in 0..(M - 1) : ShiftRight(n)
    \/ \E x \in 0..(M - 1) : Contains(x)
    \/ Size
    \/ Iterate

Spec == Init /\ [][Next]_vars

\* A container that is only ever inserted into, and iterated.
NextInsert ==
    \/ \E x \in 0..(M - 1) : Insert(x)
    \/ Iterate

SpecInsert == Init /\ [][NextInsert]_vars

\* Two ways to a container of given values: m_data, default-constructed in
\* Init, is inserted into one value at a time, ret.result keeping the values in
\* the order of the calls; other is then constructed from that sequence.
MaxSeqLen == 3

\* the values inserted so far, in the order of the calls
Inserted == IF ret.op = "insert" THEN ret.result ELSE <<>>

InsertNext(x) ==
    /\ is_valid(x)
    /\ ret.op \in {"none", "insert"}
    /\ Len(Inserted) < MaxSeqLen
    /\ m_data' = insert(m_data, x).data
    /\ ret' = Call("insert", x, FALSE, Append(Inserted, x))
    /\ UNCHANGED <<M, block_size, other, elems, it>>

Construct ==
    /\ ret.op \in {"none", "insert"}
    /\ other' = construct(Inserted)
    /\ ret' = Call("construct", 0, FALSE, Inserted)
    /\ UNCHANGED <<M, block_size, m_data, elems, it>>

NextConstruct ==
    \/ \E x \in 0..(M - 1) : InsertNext(x)
    \/ Construct

SpecConstruct == Init /\ [][NextConstruct]_vars

\* A container that is written without a log, and searched.
Store(d) ==
    /\ m_data' = d
    /\ ret' = NoCall
    /\ UNCHANGED <<M, block_size, other, elems, it>>

Query(r) ==
    /\ ret' = r
    /\ UNCHANGED <<M, block_size, m_data, other, elems, it>>

ScanInsert(x) == is_valid(x) /\ Store(insert(m_data, x).data)

ScanErase(x) == is_valid(x) /\ Store(erase(m_data, x).data)

ScanFill ==
    /\ m_data' = fill(m_data)
    /\ ret' = Call("fill", 0, FALSE, 0)
    /\ UNCHANGED <<M, block_size, other, elems, it>>

ScanClear ==
    /\ m_data' = clear(m_data)
    /\ ret' = Call("clear", 0, FALSE, 0)
    /\ UNCHANGED <<M, block_size, other, elems, it>>

Empty == Query(Answer("empty", empty(m_data)))

Full == Query(Answer("full", full(m_data)))

ScanComplement ==
    /\ m_data' = complement(m_data)
    /\ ret' = Call("complement", 0, FALSE, 0)
    /\ UNCHANGED <<M, block_size, other, elems, it>>

OpNot == Query(Call("op_not", 0, FALSE, op_not(m_data)))

FindNext(n) == is_range(n) /\ Query(Call("find_next", n, FALSE, find_next(m_data, n)))

LowerBound(x) == is_valid(x) /\ Query(Call("lower_bound", x, FALSE, lower_bound(m_data, x)))

UpperBound(x) == is_valid(x) /\ Query(Call("upper_bound", x, FALSE, upper_bound(m_data, x)))

FindPrev(n) == is_valid(n) /\ Query(Call("find_prev", n, FALSE, find_prev(m_data, n)))

Front == Query(Call("front", 0, FALSE, find_front(m_data)))

Back == Query(Call("back", 0, FALSE, find_back(m_data)))

ReverseIterate == Query(Call("reverse_iterate", 0, FALSE, reverse_iterate(m_data)))

NextScan ==
    \/ \E x \in 0..(M - 1) : ScanInsert(x)
    \/ \E x \in 0..(M - 1) : ScanErase(x)
    \/ ScanFill
    \/ ScanClear
    \/ Empty
    \/ Full
    \/ Size
    \/ Iterate
    \/ ScanComplement
    \/ OpNot
    \/ \E n \in 0..M : FindNext(n)
    \/ \E x \in 0..(M - 1) : LowerBound(x)
    \/ \E x \in 0..(M - 1) : UpperBound(x)
    \/ \E n \in 0..(M - 1) : FindPrev(n)
    \/ ReverseIterate
    \/ Front
    \/ Back

SpecScan == Init /\ [][NextScan]_vars

\* A container that is inserted into and written to a stream, and a second,
\* empty container that reads what was written.
MaxStreamN == 11

InitStream ==
    /\ M \in 0..MaxStreamN
    /\ block_size \in BlockSizes
    /\ m_data = ZeroData
    /\ other = ZeroData
    /\ elems = {}
    /\ ret = NoCall
    /\ it = NoIterator

Write == Query(Call("write", 0, FALSE, write(m_data)))

Read ==
    /\ ret.op = "write"
    /\ other = ZeroData
    /\ other' = read(ret.result, other).data
    /\ ret' = [Call("read", 0, FALSE, ret.result) EXCEPT
                   !.answer = read(ret.result, other).completed]
    /\ UNCHANGED <<M, block_size, m_data, elems, it>>

\* insert(x), for as long as nothing has been read
StreamInsert(x) == other = ZeroData /\ ScanInsert(x)

NextStream ==
    \/ \E x \in 0..(M - 1) : StreamInsert(x)
    \/ Write
    \/ Read

SpecStream == InitStream /\ [][NextStream]_vars

\* A container whose value-indexed members are called with any argument, in
\* [0, N) or not, and an iterator that is dereferenced wherever it stands.  A
\* failed assertion ends the program: no step follows it.
MaxMisuseN == 4

ValueIndexed ==
    {"insert", "erase", "replace", "contains", "find", "count", "lower_bound",
     "upper_bound", "shift_left", "shift_right"}

\* an assertion that lets the end position pass
asserted_is_range(x) == is_range(x)

\* assert(is_valid(x)), the first statement of every value-indexed member
asserted(x) == is_valid(x)

\* the words after the body of a value-indexed member has run
body(op, d, x) ==
    CASE op = "insert" -> insert(d, x).data
      [] op = "erase" -> erase(d, x).data
      [] op = "replace" -> replace(d, x)
      [] op = "shift_left" -> shift_left(d, x)
      [] op = "shift_right" -> shift_right(d, x)
      [] OTHER -> d

\* proxy_iterator::operator*: assert(is_valid(m_value)), then the value
dereference(m_value) == IF is_valid(m_value) THEN m_value ELSE Aborted

InitMisuse ==
    /\ M \in 0..MaxMisuseN
    /\ block_size \in BlockSizes
    /\ m_data = ZeroData
    /\ other = ZeroData
    /\ elems = {}
    /\ ret = NoCall
    /\ it = NoIterator

Invoke(op, x) ==
    /\ ret.result # Aborted
    /\ m_data' = IF asserted(x) THEN body(op, m_data, x) ELSE m_data
    /\ ret' = Call(op, x, FALSE, IF asserted(x) THEN 0 ELSE Aborted)
    /\ UNCHANGED <<M, block_size, other, elems, it>>

\* A container that is filled and then, no longer modified, walked by one
\* iterator: it is obtained from begin() or end() and stepped with operator++
\* and operator--; ret.arg keeps the position a step started from.
Walk(name, from, v) ==
    /\ it' = Iterator(v)
    /\ ret' = Call(name, from, FALSE, 0)
    /\ UNCHANGED <<M, block_size, m_data, other, elems>>

WalkInsert(x) == it = NoIterator /\ ScanInsert(x)

WalkErase(x) == it = NoIterator /\ ScanErase(x)

Begin == Walk("begin", 0, begin(m_data))

End == Walk("end", 0, end)

Increment ==
    /\ it.m_bs = "this"
    /\ it.m_value # Aborted
    /\ it.m_value # end
    /\ Walk("increment", it.m_value, increment_checked(m_data, it.m_value))

Decrement ==
    /\ it.m_bs = "this"
    /\ it.m_value # Aborted
    /\ it.m_value # begin(m_data)
    /\ Walk("decrement", it.m_value, decrement(m_data, it.m_value))

NextIter ==
    \/ \E x \in 0..(M - 1) : WalkInsert(x)
    \/ \E x \in 0..(M - 1) : WalkErase(x)
    \/ Begin
    \/ End
    \/ Increment
    \/ Decrement

SpecIter == Init /\ [][NextIter]_vars

MisuseBegin == ret.result # Aborted /\ Begin

MisuseEnd == ret.result # Aborted /\ End

Dereference ==
    /\ ret.result # Aborted
    /\ it.m_bs = "this"
    /\ ret' = Call("dereference", it.m_value, FALSE, dereference(it.m_value))
    /\ UNCHANGED <<M, block_size, m_data, other, elems, it>>

NextMisuse ==
    \/ \E op \in ValueIndexed : \E x \in (0 - 1)..(M + 1) : Invoke(op, x)
    \/ MisuseBegin
    \/ MisuseEnd
    \/ Dereference

SpecMisuse == InitMisuse /\ [][NextMisuse]_vars

-----------------------------------------------------------------------------
(* The state machine of two containers of one type: every public mutator   *)
(* acts on m_data, and swap and assignment carry words between m_data and  *)
(* other.  ret names the call only where a property observes it.           *)

InitPair ==
    /\ M \in 0..MaxPairN
    /\ block_size \in BlockSizes
    /\ m_data = ZeroData
    /\ other = ZeroData
    /\ elems = {}
    /\ ret = NoCall
    /\ it = NoIterator

PairStep(d, o, r) ==
    /\ m_data' = d
    /\ other' = o
    /\ ret' = r
    /\ UNCHANGED <<M, block_size, elems, it>>

PairInsert(x) == is_valid(x) /\ PairStep(insert(m_data, x).data, other, NoCall)

PairErase(x) == is_valid(x) /\ PairStep(erase(m_data, x).data, other, NoCall)

PairReplace(x) == is_valid(x) /\ PairStep(replace(m_data, x), other, NoCall)

PairFill == PairStep(fill(m_data), other, NoCall)

PairClear == PairStep(clear(m_data), other, NoCall)

PairComplement ==
    PairStep(complement(m_data), other, Call("complement", 0, FALSE, 0))

PairShiftLeft(n) ==
    is_valid(n) /\ PairStep(shift_left(m_data, n), other, Call("shift_left", 0, FALSE, 0))

PairShiftRight(n) == is_valid(n) /\ PairStep(shift_right(m_data, n), other, NoCall)

AndAssign == PairStep(and_assign(m_data, other), other, NoCall)

OrAssign == PairStep(or_assign(m_data, other), other, NoCall)

XorAssign == PairStep(xor_assign(m_data, other), other, NoCall)

MinusAssign == PairStep(minus_assign(m_data, other), other, NoCall)

Swap == PairStep(swap(m_data, other)[1], swap(m_data, other)[2], NoCall)

\* *this = other: the implicit copy assignment copies the word array
Assign == PairStep(other, other, NoCall)

Compare ==
    PairStep(m_data, other, Call("compare", 0, FALSE, three_way(m_data, other)))

NextPair ==
    \/ \E x \in 0..(M - 1) : PairInsert(x)
    \/ \E x \in 0..(M - 1) : PairErase(x)
    \/ \E x \in 0..(M - 1) : PairReplace(x)
    \/ PairFill
    \/ PairClear
    \/ PairComplement
    \/ \E n \in 0..(M - 1) : PairShiftLeft(n)
    \/ \E n \in 0..(M - 1) : PairShiftRight(n)
    \/ AndAssign
    \/ OrAssign
    \/ XorAssign
    \/ MinusAssign
    \/ Swap
    \/ Assign
    \/ Compare

SpecPair == InitPair /\ [][NextPair]_vars

\* Two containers combined by the set algebra: the in-place operators write
\* m_data, the binary operators return a third container in ret.result.
InPlace(name, d) == PairStep(d, other, Call(name, 0, FALSE, 0))

Binary(name, nrv) == PairStep(m_data, other, Call(name, 0, FALSE, nrv))

AlgAndAssign == InPlace("and_assign", and_assign(m_data, other))

AlgOrAssign == InPlace("or_assign", or_assign(m_data, other))

AlgXorAssign == InPlace("xor_assign", xor_assign(m_data, other))

AlgMinusAssign == InPlace("minus_assign", minus_assign(m_data, other))

OpAnd == Binary("op_and", op_and(m_data, other))

OpOr == Binary("op_or", op_or(m_data, other))

OpXor == Binary("op_xor", op_xor(m_data, other))

OpMinus == Binary("op_minus", op_minus(m_data, other))

NextAlgebra ==
    \/ \E x \in 0..(M - 1) : PairInsert(x)
    \/ \E x \in 0..(M - 1) : PairErase(x)
    \/ Swap
    \/ AlgAndAssign
    \/ AlgOrAssign
    \/ AlgXorAssign
    \/ AlgMinusAssign
    \/ OpAnd
    \/ OpOr
    \/ OpXor
    \/ OpMinus

SpecAlgebra == InitPair /\ [][NextAlgebra]_vars

\* Two containers compared with operator<=> and operator==.
Equals == PairStep(m_data, other, Answer("equal_to", equal_to(m_data, other)))

NextOrder ==
    \/ \E x \in 0..(M - 1) : PairInsert(x)
    \/ Swap
    \/ Compare
    \/ Equals

SpecOrder == InitPair /\ [][NextOrder]_vars

\* Two containers asked how they relate; name(m_data, other) is the call.
Relation(name, answer) == PairStep(m_data, other, Answer(name, answer))

IsSubsetOf == Relation("is_subset_of", is_subset_of(m_data, other))

IsSupersetOf == Relation("is_superset_of", is_superset_of(m_data, other))

IsProperSubsetOf == Relation("is_proper_subset_of", is_proper_subset_of(m_data, other))

IsProperSupersetOf ==
    Relation("is_proper_superset_of", is_proper_superset_of(m_data, other))

Intersects == Relation("intersects", intersects(m_data, other))

Disjoint == Relation("disjoint", disjoint(m_data, other))

NextRelate ==
    \/ \E x \in 0..(M - 1) : PairInsert(x)
    \/ Swap
    \/ IsSubsetOf
    \/ IsSupersetOf
    \/ IsProperSubsetOf
    \/ IsProperSupersetOf
    \/ Intersects
    \/ Disjoint

SpecRelate == InitPair /\ [][NextRelate]_vars

\* A container with an iterator into it that is modified, by every kind of
\* mutator, while the iterator exists, and the iterator advanced afterwards.
MaxWalkN == 4

InitWalk ==
    /\ M \in 0..MaxWalkN
    /\ block_size \in BlockSizes
    /\ m_data = ZeroData
    /\ other = ZeroData
    /\ elems = {}
    /\ ret = NoCall
    /\ it = NoIterator

NextInvalidate ==
    \/ \E x \in 0..(M - 1) : PairInsert(x)
    \/ \E x \in 0..(M - 1) : PairErase(x)
    \/ \E x \in 0..(M - 1) : PairReplace(x)
    \/ PairFill
    \/ PairClear
    \/ PairComplement
    \/ \E n \in 0..(M - 1) : PairShiftLeft(n)
    \/ \E n \in 0..(M - 1) : PairShiftRight(n)
    \/ AndAssign
    \/ OrAssign
    \/ XorAssign
    \/ MinusAssign
    \/ Swap
    \/ Begin
    \/ Increment

SpecInvalidate == InitWalk /\ [][NextInvalidate]_vars

-----------------------------------------------------------------------------
(* The abstract reading of a word array, as the data model states it,      *)
(* independent of which, where and single_bit_mask.                        *)

\* storage[L-1 - v/W] & ((1 << (W-1)) >> (v mod W)) is nonzero
Bit(d, v) ==
    And(d[num_logical_blocks - 1 - v \div block_size],
        Shr(Pow2(block_size - 1), v % block_size)) # 0

Members(d) == {v \in 0..(M - 1) : Bit(d, v)}

Min(S) == CHOOSE m \in S : \A v \in S : m <= v

RECURSIVE Ascending(_)
\* the elements of a finite set of integers in strictly ascending order
Ascending(S) ==
    IF S = {} THEN <<>> ELSE <<Min(S)>> \o Ascending(S \ {Min(S)})

RECURSIVE LexCompare(_, _)
\* the three-way lexicographic comparison of two integer sequences
LexCompare(s, t) ==
    IF s = <<>> /\ t = <<>> THEN "equal"
    ELSE IF s = <<>> THEN "less"
    ELSE IF t = <<>> THEN "greater"
    ELSE IF Head(s) < Head(t) THEN "less"
    ELSE IF Head(s) > Head(t) THEN "greater"
    ELSE LexCompare(Tail(s), Tail(t))

-----------------------------------------------------------------------------
(* Properties.                                                             *)

\* C1: after inserting exactly the elements of a set into an empty container,
\* iterating from begin() to end() with operator++ yields those elements in
\* strictly ascending order, each exactly once.
RoundTrip ==
    ret.op = "iterate" => ret.result = Ascending(elems)

RoundTripWitness ==
    /\ ret.op = "iterate"
    /\ num_logical_blocks >= 3
    /\ Len(ret.result) >= 3
    /\ ret.result[1] > 0
    /\ \E k \in 1..(Len(ret.result) - 1) :
           which(ret.result[k]) - which(ret.result[k + 1]) >= 2

\* C2: after any sequence of mutators the packed words represent exactly the
\* abstract set built by the same sequence: contains(v) iff v is in the set
\* iff the bit of v at word L-1 - v/W under mask (1 << (W-1)) >> (v mod W) is set.
Refinement ==
    /\ \A v \in 0..(M - 1) :
           /\ contains(m_data, v) <=> v \in elems
           /\ v \in elems <=> Bit(m_data, v)
    /\ ret.op = "contains" => (ret.result <=> ret.arg \in elems)

RefinementWitness ==
    /\ ret.op = "contains"
    /\ ret.result
    /\ num_logical_blocks >= 2
    /\ ret.arg >= block_size
    /\ elems # 0..(M - 1)
    /\ Cardinality(elems) >= 2

\* C3: A <=> B agrees with comparing the ascending element sequences of A and
\* B lexicographically; a proper prefix, the empty set included, compares less.
OrderingIsLexicographic ==
    ret.op = "compare" =>
        ret.result = LexCompare(Ascending(Members(m_data)), Ascending(Members(other)))

\* C4: insert(v) returns true as the bool of its pair exactly when v was
\* absent before the call.
InsertReturnsNewlyAdded ==
    ret.op = "insert" => (ret.result <=> ~ret.was)

\* C5: erase(v) returns 1 when v was a member before the call and 0 when not.
EraseReturnsCount ==
    ret.op = "erase" => ret.result = (IF ret.was THEN 1 ELSE 0)

\* C6: a second insert(v) right after insert(v), like any insert(v) of a value
\* that is a member, leaves every word as it was, and erase(v) of a value that
\* is not a member changes no word.
Idempotence ==
    [][ /\ (ret.op = "insert" /\ ret'.op = "insert" /\ ret'.arg = ret.arg)
            => m_data' = m_data
        /\ (ret'.op = "insert" /\ ret'.was) => m_data' = m_data
        /\ (ret'.op = "erase" /\ ~ret'.was) => m_data' = m_data ]_vars

IdempotenceWitness ==
    /\ ret.op = "insert"
    /\ ret.was
    /\ num_logical_blocks >= 2
    /\ Cardinality(elems) >= 2

\* C7: S <<= n yields exactly {v+n : v in S, v+n < N} and S >>= n yields exactly
\* {v-n : v in S, v >= n}; shifting by 0 leaves S unchanged.
ShiftRenumbers ==
    [][ /\ ret'.op = "shift_left" =>
               Members(m_data') =
                   {v + ret'.arg : v \in Members(m_data)} \cap (0..(M - 1))
        /\ ret'.op = "shift_right" =>
               Members(m_data') =
                   {v - ret'.arg : v \in Members(m_data)} \cap (0..(M - 1))
        /\ (ret'.op \in {"shift_left", "shift_right"} /\ ret'.arg = 0) =>
               m_data' = m_data ]_vars

ShiftRenumbersWitness ==
    /\ ret.op = "shift_left"
    /\ num_logical_blocks >= 3
    /\ ret.arg > block_size
    /\ ret.arg % block_size # 0
    /\ Cardinality(elems) >= 2

\* C8, as stated: shifting the full container [0,N) left by 1, N >= 2, yields
\* [0,N-1).
ShiftFullLeftDropsLast ==
    [][ (elems = 0..(M - 1) /\ M >= 2 /\ ret'.op = "shift_left" /\ ret'.arg = 1)
            => Members(m_data') = 0..(M - 2) ]_vars

\* C8, amended: shifting the full container [0,N) left by 1, N >= 2, yields
\* [1,N): element 0 is dropped and element N-1 is still a member.
ShiftFullLeftDropsFirst ==
    [][ (elems = 0..(M - 1) /\ M >= 2 /\ ret'.op = "shift_left" /\ ret'.arg = 1)
            => Members(m_data') = 1..(M - 1) ]_vars

ShiftFullLeftWitness ==
    /\ ret.op = "shift_left"
    /\ ret.arg = 1
    /\ M >= 2
    /\ num_excess_bits > 0
    /\ num_logical_blocks >= 2
    /\ elems = 1..(M - 1)

\* C9: in every state reachable by the public mutators all excess bits, the
\* positions of the word array that stand for the values N..B-1, are zero.
ExcessBitsZero ==
    \A v \in M..(num_bits - 1) : ~Bit(m_data, v) /\ ~Bit(other, v)

ExcessBitsZeroWitness ==
    /\ ret.op = "complement"
    /\ num_excess_bits > 0
    /\ num_logical_blocks >= 2
    /\ m_data[0] = no_excess_bits
    /\ other[0] # 0

\* C10: size() equals the number of positions visited by iterating from
\* begin() to end() and the number of values v in [0,N) with contains(v).
SizeConsistent ==
    ret.op = "size" =>
        /\ ret.result = Len(iterate(m_data))
        /\ ret.result = Cardinality({v \in 0..(M - 1) : contains(m_data, v)})

SizeConsistentWitness ==
    /\ ret.op = "size"
    /\ num_logical_blocks >= 3
    /\ ret.result >= 3
    /\ ret.result < M

Max(S) == CHOOSE m \in S : \A v \in S : m >= v

\* the smallest member not below x, or the end position
SmallestFrom(d, x) ==
    IF {v \in Members(d) : v >= x} = {} THEN M
    ELSE Min({v \in Members(d) : v >= x})

\* C11: find_next(x) and lower_bound(x) are positioned at the smallest member
\* >= x, upper_bound(x) at the smallest member > x, and each is the end
\* position N when there is no such member (find_next(N) = N included).
ScanFindsSuccessor ==
    /\ ret.op \in {"find_next", "lower_bound"} =>
           ret.result = SmallestFrom(m_data, ret.arg)
    /\ ret.op = "upper_bound" => ret.result = SmallestFrom(m_data, ret.arg + 1)

\* upper_bound skips x itself and lands in another word than x's
ScanFindsSuccessorWitness ==
    /\ ret.op = "upper_bound"
    /\ ret.arg \in Members(m_data)
    /\ ret.result < M
    /\ num_logical_blocks >= 2
    /\ which(ret.result) # which(ret.arg)

\* C12: A&B, A|B, A^B and A-B, and the in-place &=, |=, ^= and -=, hold
\* exactly the intersection, the union, the symmetric difference and the
\* difference A\B of the members of A and B, and leave the right operand (and,
\* for the binary operators, the left one) unchanged.
AlgebraExact ==
    [][LET A == Members(m_data)
           B == Members(other)
           inplace == Members(m_data')
           nrv == Members(ret'.result)
       IN  /\ ret'.op = "and_assign" => inplace = A \cap B /\ other' = other
           /\ ret'.op = "or_assign" => inplace = A \cup B /\ other' = other
           /\ ret'.op = "xor_assign" =>
                  inplace = (A \ B) \cup (B \ A) /\ other' = other
           /\ ret'.op = "minus_assign" => inplace = A \ B /\ other' = other
           /\ ret'.op = "op_and" =>
                  nrv = A \cap B /\ m_data' = m_data /\ other' = other
           /\ ret'.op = "op_or" =>
                  nrv = A \cup B /\ m_data' = m_data /\ other' = other
           /\ ret'.op = "op_xor" =>
                  nrv = (A \ B) \cup (B \ A) /\ m_data' = m_data /\ other' = other
           /\ ret'.op = "op_minus" =>
                  nrv = A \ B /\ m_data' = m_data /\ other' = other]_vars

\* A -= B has run on operands that overlapped without either holding the
\* other, in a container of three words or more
AlgebraExactWitness ==
    /\ ret.op = "minus_assign"
    /\ num_logical_blocks >= 3
    /\ Members(m_data) # {}
    /\ Members(other) \ Members(m_data) # {}
    /\ Cardinality(Members(other)) >= 2

\* the bit positions of the word array that stand for no value of [0, N)
ExcessPositions == M..(num_bits - 1)

\* C13: complement() replaces S by exactly [0,N) \ S and sets no bit outside
\* [0,N), so that complementing the result again gives back the words of S;
\* operator~ returns the same set and leaves S as it is.
ComplementExact ==
    [][/\ ret'.op = "complement" =>
              /\ Members(m_data') = (0..(M - 1)) \ Members(m_data)
              /\ \A p \in ExcessPositions : ~Bit(m_data', p)
              /\ complement(m_data') = m_data
       /\ ret'.op = "op_not" =>
              /\ Members(ret'.result) = (0..(M - 1)) \ Members(m_data)
              /\ \A p \in ExcessPositions : ~Bit(ret'.result, p)
              /\ op_not(ret'.result) = m_data
              /\ m_data' = m_data]_vars

\* complement() has run on a set that is neither empty nor full, in a
\* container of several words whose capacity is no multiple of the word width
ComplementExactWitness ==
    /\ ret.op = "complement"
    /\ num_logical_blocks >= 2
    /\ num_excess_bits # 0
    /\ Members(m_data) # {}
    /\ Members(m_data) # 0..(M - 1)

RelationNames ==
    {"is_subset_of", "is_superset_of", "is_proper_subset_of",
     "is_proper_superset_of", "intersects", "disjoint"}

\* C14: with A the members of the first argument and B those of the second,
\* is_subset_of is true iff every member of A is in B, is_superset_of(A, B)
\* equals is_subset_of(B, A), is_proper_subset_of is true iff A is a subset of B
\* and differs from it, intersects is true iff A and B share a member, disjoint
\* is the negation of intersects, and no call changes either argument.
RelationsExact ==
    [][LET A == Members(m_data)
           B == Members(other)
       IN  /\ ret'.op = "is_subset_of" => (ret'.answer <=> A \subseteq B)
           /\ ret'.op = "is_superset_of" =>
                  /\ ret'.answer <=> is_subset_of(other, m_data)
                  /\ ret'.answer <=> B \subseteq A
           /\ ret'.op = "is_proper_subset_of" =>
                  (ret'.answer <=> (A \subseteq B /\ A # B))
           /\ ret'.op = "is_proper_superset_of" =>
                  (ret'.answer <=> (B \subseteq A /\ A # B))
           /\ ret'.op = "intersects" => (ret'.answer <=> A \cap B # {})
           /\ ret'.op = "disjoint" =>
                  /\ ret'.answer <=> ~intersects(m_data, other)
                  /\ ret'.answer <=> A \cap B = {}
           /\ ret'.op \in RelationNames => m_data' = m_data /\ other' = other]_vars

\* is_proper_subset_of has answered true for two sets that differ only in a
\* slot other than slot 0
RelationsExactWitness ==
    /\ ret.op = "is_proper_subset_of"
    /\ ret.answer
    /\ num_logical_blocks >= 3
    /\ m_data[0] = other[0]
    /\ Members(m_data) # {}

\* C15: in every reachable state empty() is true iff the set has no members
\* and full() is true iff every value of [0,N) is a member; right after fill()
\* the container is full with size() = N, and right after clear() it is empty
\* with size() = 0.
EmptyFullExact ==
    /\ empty(m_data) <=> Members(m_data) = {}
    /\ full(m_data) <=> Members(m_data) = 0..(M - 1)
    /\ ret.op = "empty" => (ret.answer <=> Members(m_data) = {})
    /\ ret.op = "full" => (ret.answer <=> Members(m_data) = 0..(M - 1))
    /\ ret.op = "fill" =>
           full(m_data) /\ Members(m_data) = 0..(M - 1) /\ size(m_data) = M
    /\ ret.op = "clear" =>
           empty(m_data) /\ Members(m_data) = {} /\ size(m_data) = 0

\* full() has answered true on a container of three words or more whose
\* capacity is no multiple of the word width
EmptyFullExactWitness ==
    /\ ret.op = "full"
    /\ ret.answer
    /\ num_logical_blocks >= 3
    /\ num_excess_bits # 0

\* the word arrays a container of this type can hold: no excess bit set
Containers ==
    IF num_logical_blocks = 0 THEN {ZeroData}
    ELSE {c \in [0..(num_storage_blocks - 1) -> 0..ones] :
              \A p \in ExcessPositions : ~Bit(c, p)}

\* C16: with A < B meaning that A <=> B is less and A > B that it is greater,
\* exactly one of A < B, A == B, A > B holds; A == B holds exactly when A and B
\* have the same members; A < B exactly when B > A; and A < B and B < C imply
\* A < C for every container C of the type.
OrderIsStrictTotal ==
    /\ ret.op = "compare" =>
           LET lt == ret.result = "less"
               gt == ret.result = "greater"
               eq == equal_to(m_data, other)
           IN  /\ (lt /\ ~eq /\ ~gt) \/ (~lt /\ eq /\ ~gt) \/ (~lt /\ ~eq /\ gt)
               /\ eq <=> Members(m_data) = Members(other)
               /\ lt <=> three_way(other, m_data) = "greater"
               /\ gt <=> three_way(other, m_data) = "less"
               /\ \A c \in Containers :
                      (lt /\ three_way(other, c) = "less") =>
                          three_way(m_data, c) = "less"
    /\ ret.op = "equal_to" =>
           /\ ret.answer <=> Members(m_data) = Members(other)
           /\ ret.answer <=> three_way(m_data, other) = "equal"

\* A <=> B has answered less for two containers of three words or more that
\* agree in slot 0, and some third container is greater than B
OrderIsStrictTotalWitness ==
    /\ ret.op = "compare"
    /\ ret.result = "less"
    /\ num_logical_blocks >= 3
    /\ m_data[0] = other[0]
    /\ \E c \in Containers : three_way(other, c) = "less"

\* C17: a container of capacity 0 is in every state empty and full, of size 0,
\* with begin() = end() and an iteration that yields nothing, and empty(),
\* full(), size() and a range-for answer so, also after fill(), clear() and
\* complement().
ZeroCapacity ==
    M = 0 =>
        /\ empty(m_data) /\ full(m_data) /\ size(m_data) = 0
        /\ begin(m_data) = end /\ iterate(m_data) = <<>>
        /\ ret.op = "empty" => ret.answer
        /\ ret.op = "full" => ret.answer
        /\ ret.op = "size" => ret.result = 0
        /\ ret.op = "iterate" => ret.result = <<>>

\* complement() has just run on a container of capacity 0
ZeroCapacityWitness == M = 0 /\ ret.op = "complement"

\* the values of a sequence
Range(seq) == {seq[i] : i \in 1..Len(seq)}

\* C18: a default-constructed container has every word zero and is empty, and
\* a container constructed from a sequence of values of [0,N), in any order
\* and with duplicates, equals the default-constructed container into which
\* each value of the sequence has been inserted; its members are the values of
\* the sequence.
ConstructIsInsertEach ==
    /\ ret.op = "none" =>
           /\ \A i \in DOMAIN m_data : m_data[i] = 0
           /\ empty(m_data) /\ Members(m_data) = {}
    /\ ret.op = "construct" =>
           /\ other = m_data
           /\ equal_to(other, m_data)
           /\ Members(other) = Range(ret.result)

\* a container of several words has been constructed from a sequence of full
\* length that is not ascending and repeats a value
ConstructIsInsertEachWitness ==
    /\ ret.op = "construct"
    /\ num_logical_blocks >= 2
    /\ Len(ret.result) = MaxSeqLen
    /\ ret.result[1] > ret.result[2]
    /\ ret.result[MaxSeqLen] = ret.result[1]

RECURSIVE Descending(_)
\* the elements of a finite set of integers in strictly descending order
Descending(S) ==
    IF S = {} THEN <<>> ELSE <<Max(S)>> \o Descending(S \ {Max(S)})

\* C19: stepping with operator-- from end() until begin() is reached visits
\* exactly the members in strictly descending order, and find_prev(v), for v in
\* [0,N) with some member <= v, returns the largest member <= v.
ReverseIsDescending ==
    /\ ret.op = "reverse_iterate" => ret.result = Descending(Members(m_data))
    /\ ret.op = "find_prev" =>
           LET below == {v \in Members(m_data) : v <= ret.arg}
           IN  below # {} => ret.result = Max(below)

\* find_prev(v) has found its member in another word than v's, with a member
\* above v in v's own word
ReverseIsDescendingWitness ==
    /\ ret.op = "find_prev"
    /\ num_logical_blocks >= 3
    /\ ret.result \in Members(m_data)
    /\ which(ret.result) > which(ret.arg) + 1
    /\ \E v \in Members(m_data) : v > ret.arg /\ which(v) = which(ret.arg)

\* the largest member below x; asked for only where there is one
LargestBelow(d, x) == Max({v \in Members(d) : v < x})

\* C20: on a container that is not modified meanwhile, every position an
\* iterator reaches from begin() or end() by operator++ (from a position other
\* than end()) and operator-- (from a position other than begin()) lies in
\* [0,N]; a position below N is a member; operator++ from pos lands on
\* find_next(pos + 1), the smallest member above pos or N; operator-- from pos
\* lands on find_prev(pos - 1), the largest member below pos; and begin()
\* equals end() exactly when the container has no member.
IteratorStateMachine ==
    /\ begin(m_data) = end <=> Members(m_data) = {}
    /\ it.m_bs = "this" =>
           /\ it.m_value \in 0..M
           /\ it.m_value < M => it.m_value \in Members(m_data)
           /\ ret.op = "begin" => it.m_value = SmallestFrom(m_data, 0)
           /\ ret.op = "end" => it.m_value = M
           /\ ret.op = "increment" =>
                  /\ it.m_value = find_next(m_data, ret.arg + 1)
                  /\ it.m_value = SmallestFrom(m_data, ret.arg + 1)
           /\ ret.op = "decrement" =>
                  /\ it.m_value = find_prev(m_data, ret.arg - 1)
                  /\ it.m_value = LargestBelow(m_data, ret.arg)

\* operator-- has stepped from a member over a word without members to a
\* member that is not the first
IteratorStateMachineWitness ==
    /\ ret.op = "decrement"
    /\ ret.arg < M
    /\ num_logical_blocks >= 3
    /\ which(it.m_value) > which(ret.arg) + 1
    /\ it.m_value # begin(m_data)

\* C21: on a set with a member, front() refers to the smallest member and
\* back() to the largest, whatever the number of words.
FrontBackExact ==
    Members(m_data) # {} =>
        /\ ret.op = "front" => ret.result = Min(Members(m_data))
        /\ ret.op = "back" => ret.result = Max(Members(m_data))

\* back() has answered for a container of three words or more whose capacity
\* is no multiple of the word width and whose largest member is in neither
\* the first nor the last slot
FrontBackExactWitness ==
    /\ ret.op = "back"
    /\ num_logical_blocks >= 3
    /\ num_excess_bits # 0
    /\ ret.result \in Members(m_data)
    /\ which(ret.result) \notin {0, num_logical_blocks - 1}

RECURSIVE Join(_)
\* the decimal numerals of a sequence of integers with a ',' between them
Join(xs) ==
    IF xs = <<>> THEN <<>>
    ELSE IF Len(xs) = 1 THEN format_int(xs[1])
    ELSE format_int(xs[1]) \o <<",">> \o Join(Tail(xs))

\* C22: operator<< writes '[', the members in ascending order separated by
\* ',', and ']' (so "[]" for the empty set), and operator>> reading that text
\* into an empty container gives a container equal to the written one.
StreamRoundTrip ==
    /\ ret.op = "write" =>
           ret.result = <<"[">> \o Join(Ascending(Members(m_data))) \o <<"]">>
    /\ ret.op = "read" => ret.answer /\ other = m_data /\ equal_to(other, m_data)

\* a set holding values of one and of two digits has been written and read
StreamRoundTripWitness ==
    /\ ret.op = "read"
    /\ Len(ret.result) >= 8
    /\ \E v \in Members(other) : v >= 10
    /\ \E v \in Members(other) : v < 10 /\ v > 0

\* C23: insert, erase, replace, contains, find, count, lower_bound,
\* upper_bound, <<= and >>= called with an argument outside [0,N), and
\* operator* of an iterator at end(), end in a failed assertion with every
\* word of the container as it was.
AssertionsGuard ==
    [][/\ (ret'.op \in ValueIndexed /\ ret'.arg \notin 0..(M - 1)) =>
              (ret'.result = Aborted /\ m_data' = m_data)
       /\ (ret'.op = "dereference" /\ it.m_value = M) =>
              (ret'.result = Aborted /\ m_data' = m_data)]_vars

\* <<= has been called with the capacity as its count on a set with members
AssertionsGuardWitness ==
    /\ ret.op = "shift_left"
    /\ ret.arg = M
    /\ ret.result = Aborted
    /\ Members(m_data) # {}
    /\ num_logical_blocks >= 2

\* C24: an iterator at a value p of [0,N) keeps its position through every
\* mutation of its container, and operator++ afterwards lands on the smallest
\* member above p of the container as it then is, or on end(), also when p is
\* a member no more.
IteratorSurvives ==
    [][/\ (it.m_bs = "this" /\ ret'.op \notin {"begin", "increment"}) => it' = it
       /\ ret'.op = "increment" =>
              /\ it'.m_value = SmallestFrom(m_data, it.m_value + 1)
              /\ m_data' = m_data]_vars

\* operator++ has stepped from a value that had been removed since the
\* iterator came to stand on it, and has found a member above it
IteratorSurvivesWitness ==
    /\ ret.op = "increment"
    /\ ret.arg \notin Members(m_data)
    /\ it.m_value \in Members(m_data)

\* The same walk with operator-- applied wherever the iterator stands, at
\* begin() included, where there is no member below to step to.
Retreat ==
    /\ it.m_bs = "this"
    /\ it.m_value # Aborted
    /\ Walk("decrement", it.m_value, decrement(m_data, it.m_value))

NextRetreat ==
    \/ \E x \in 0..(M - 1) : WalkInsert(x)
    \/ \E x \in 0..(M - 1) : WalkErase(x)
    \/ Begin
    \/ End
    \/ Increment
    \/ Retreat

SpecRetreat == Init /\ [][NextRetreat]_vars

\* C25: operator-- applied to an iterator equal to begin() (the smallest
\* member of a non-empty container, or end() of an empty one) always trips
\* an assertion, for every word count: it never completes with the iterator
\* at a position in [0, N].
DecrementAtBeginAborts ==
    (ret.op = "decrement" /\ ret.arg = begin(m_data)) =>
        (it.m_value = Aborted /\ it.m_value \notin 0..M)

\* operator-- at a begin() that shares the last storage word with the
\* position below it, in a container of several words.
DecrementAtBeginAbortsWitness ==
    /\ ret.op = "decrement"
    /\ ret.arg = begin(m_data)
    /\ num_logical_blocks >= 2
    /\ 0 < ret.arg
    /\ ret.arg < block_size
    /\ it.m_value = Aborted

-----------------------------------------------------------------------------
(* Two containers of one capacity, run at every word width beside the sets *)
(* of values a container without words would hold: elems.this and          *)
(* elems.other are written by set operations that name no word width.      *)

MaxWidthN == 4

InitWidth ==
    /\ M \in 0..MaxWidthN
    /\ block_size \in BlockSizes
    /\ m_data = ZeroData
    /\ other = ZeroData
    /\ elems = [this |-> {}, other |-> {}]
    /\ ret = NoCall
    /\ it = NoIterator

Mirror(d, e) ==
    /\ m_data' = d
    /\ elems' = [elems EXCEPT !.this = e]
    /\ ret' = NoCall
    /\ UNCHANGED <<M, block_size, other, it>>

RefInsert(x) == is_valid(x) /\ Mirror(insert(m_data, x).data, elems.this \cup {x})

RefErase(x) == is_valid(x) /\ Mirror(erase(m_data, x).data, elems.this \ {x})

RefComplement == Mirror(complement(m_data), (0..(M - 1)) \ elems.this)

RefShiftLeft(n) ==
    /\ is_valid(n)
    /\ Mirror(shift_left(m_data, n), {v + n : v \in elems.this} \cap (0..(M - 1)))

RefShiftRight(n) ==
    /\ is_valid(n)
    /\ Mirror(shift_right(m_data, n), {v - n : v \in elems.this} \cap (0..(M - 1)))

RefAndAssign == Mirror(and_assign(m_data, other), elems.this \cap elems.other)

RefOrAssign == Mirror(or_assign(m_data, other), elems.this \cup elems.other)

RefXorAssign ==
    Mirror(xor_assign(m_data, other),
           (elems.this \ elems.other) \cup (elems.other \ elems.this))

RefMinusAssign == Mirror(minus_assign(m_data, other), elems.this \ elems.other)

RefSwap ==
    /\ m_data' = swap(m_data, other)[1]
    /\ other' = swap(m_data, other)[2]
    /\ elems' = [this |-> elems.other, other |-> elems.this]
    /\ ret' = NoCall
    /\ UNCHANGED <<M, block_size, it>>

RefContains(x) ==
    is_valid(x) /\ Query([Answer("contains", contains(m_data, x)) EXCEPT !.arg = x])

NextWidth ==
    \/ \E x \in 0..(M - 1) : RefInsert(x)
    \/ \E x \in 0..(M - 1) : RefErase(x)
    \/ RefComplement
    \/ \E n \in 0..(M - 1) : RefShiftLeft(n)
    \/ \E n \in 0..(M - 1) : RefShiftRight(n)
    \/ RefAndAssign
    \/ RefOrAssign
    \/ RefXorAssign
    \/ RefMinusAssign
    \/ RefSwap
    \/ \E x \in 0..(M - 1) : RefContains(x)
    \/ Size
    \/ Empty
    \/ Full
    \/ Iterate
    \/ \E n \in 0..M : FindNext(n)
    \/ \E n \in 0..(M - 1) : FindPrev(n)
    \/ OpAnd
    \/ OpOr
    \/ OpXor
    \/ OpMinus
    \/ Equals
    \/ Compare

SpecWidth == InitWidth /\ [][NextWidth]_vars

\* the order of two sets of values decided at the smallest value that is in
\* one and not in the other: the set that holds it is the lesser
FirstDifference(a, b) ==
    IF a = b THEN "equal"
    ELSE IF Min((a \ b) \cup (b \ a)) \in a THEN "less"
    ELSE "greater"

-----------------------------------------------------------------------------
(* What a call does to the word array besides its result: the amounts by   *)
(* which it shifts a word natively, and the slots of m_data it reads or    *)
(* writes.  Each operator follows the control flow of its member function. *)

Trace(shifts, indices) == [shifts |-> shifts, indices |-> indices]

Then(t, u) == Trace(t.shifts \cup u.shifts, t.indices \cup u.indices)

\* m_data[i] as the scans read it; a slot outside the array holds no word of
\* the container, and the scan goes on as over a zero word
Word(d, i) == IF i \in DOMAIN d THEN d[i] ELSE zero

\* m_data[which(x)] combined with single_bit_mask(where(x)): contains,
\* insert, erase and replace
trace_mask(x) ==
    IF num_logical_blocks >= 1 THEN Trace({where(x)}, {which(x)})
    ELSE Trace({}, {})

\* clear_excess_bits(): m_data[0] &= no_excess_bits
trace_clear_excess_bits ==
    IF num_excess_bits # 0 THEN Trace({}, {0}) ELSE Trace({}, {})

RECURSIVE trace_down(_, _, _)
\* for (; i >= last; --i) if (m_data[i]) return: the slots read
trace_down(d, i, last) ==
    IF i >= last
    THEN IF Word(d, i) # 0 THEN {i} ELSE {i} \cup trace_down(d, i - 1, last)
    ELSE {}

RECURSIVE trace_up(_, _, _)
\* for (; i < last; ++i) if (m_data[i]) return: the slots read, and whether
\* the loop ran to its end
trace_up(d, i, last) ==
    IF i < last
    THEN IF Word(d, i) # 0 THEN [indices |-> {i}, done |-> FALSE]
         ELSE [indices |-> {i} \cup trace_up(d, i + 1, last).indices,
               done    |-> trace_up(d, i + 1, last).done]
    ELSE [indices |-> {}, done |-> TRUE]

trace_find_first(d) ==
    IF num_logical_blocks = 1 THEN Trace({}, {0})
    ELSE IF num_logical_blocks >= 2
    THEN Trace({}, trace_down(d, num_logical_blocks - 1, 0))
    ELSE Trace({}, {})

trace_find_front(d) ==
    IF num_logical_blocks = 1 THEN Trace({}, {0})
    ELSE IF num_logical_blocks = 2
    THEN Trace({}, IF Word(d, 1) # 0 THEN {1} ELSE {1, 0})
    ELSE LET loop == trace_down(d, num_storage_blocks - 1, 1)
         IN  Trace({}, IF \E i \in loop : Word(d, i) # 0 THEN loop
                       ELSE loop \cup {0})

trace_find_back(d) ==
    IF num_logical_blocks = 1 THEN Trace({}, {0})
    ELSE IF num_logical_blocks = 2
    THEN Trace({}, IF Word(d, 0) # 0 THEN {0} ELSE {0, 1})
    ELSE LET loop == trace_up(d, 0, num_storage_blocks - 1)
         IN  Trace({}, IF loop.done
                       THEN loop.indices \cup {num_storage_blocks - 1}
                       ELSE loop.indices)

trace_find_next(d, n) ==
    IF n = M THEN Trace({}, {})
    ELSE IF num_logical_blocks = 1 THEN Trace({n}, {0})
    ELSE IF num_logical_blocks >= 2
    THEN LET i      == which(n)
             offset == where(n)
         IN  IF offset # 0
             THEN IF Shl(Word(d, i), offset) # 0 THEN Trace({offset}, {i})
                  ELSE Trace({offset}, {i} \cup trace_down(d, i - 1, 0))
             ELSE Trace({}, trace_down(d, i, 0))
    ELSE Trace({}, {})

\* find_prev that reads its last word at the slot the scan stopped at
trace_find_prev_at_i(d, n) ==
    IF num_logical_blocks = 1 THEN Trace({block_size - 1 - n}, {0})
    ELSE LET i      == which(n)
             offset == block_size - 1 - where(n)
             from   == IF offset # 0 THEN i + 1 ELSE i
             loop   == trace_up(d, from, num_storage_blocks - 1)
             stop   == IF from > num_storage_blocks - 1 THEN from
                       ELSE num_storage_blocks - 1
         IN  IF offset # 0 /\ Shr(Word(d, i), offset) # 0
             THEN Trace({offset}, {i})
             ELSE Trace(IF offset # 0 THEN {offset} ELSE {},
                        (IF offset # 0 THEN {i} ELSE {}) \cup loop.indices
                            \cup (IF loop.done THEN {stop} ELSE {}))

trace_find_prev(d, n) ==
    IF num_logical_blocks = 1 THEN Trace({block_size - 1 - n}, {0})
    ELSE LET i      == which(n)
             offset == block_size - 1 - where(n)
             from   == IF offset # 0 THEN i + 1 ELSE i
             loop   == trace_up(d, from, num_storage_blocks - 1)
         IN  IF offset # 0 /\ Shr(Word(d, i), offset) # 0
             THEN Trace({offset}, {i})
             ELSE Trace(IF offset # 0 THEN {offset} ELSE {},
                        (IF offset # 0 THEN {i} ELSE {}) \cup loop.indices
                            \cup (IF loop.done THEN {num_storage_blocks - 1}
                                  ELSE {}))

\* operator<<= that combines neighbouring words whatever R_shift is
trace_shift_left_no_copy(n) ==
    IF num_logical_blocks = 1 THEN Then(Trace({n}, {0}), trace_clear_excess_bits)
    ELSE IF n = 0 THEN Trace({}, {})
    ELSE LET n_block == n \div block_size
             R_shift == n % block_size
             L_shift == block_size - R_shift
             rounds  == 0..(num_logical_blocks - 2 - n_block)
         IN  Then(Trace({R_shift} \cup (IF rounds # {} THEN {L_shift} ELSE {}),
                        UNION {{i, i + n_block, i + n_block + 1} : i \in rounds}
                            \cup {num_logical_blocks - 1 - n_block,
                                  num_logical_blocks - 1}
                            \cup ((num_logical_blocks - n_block)
                                      ..(num_logical_blocks - 1))),
                  trace_clear_excess_bits)

\* operator<<=(n)
trace_shift_left(n) ==
    IF num_logical_blocks = 1 THEN Then(Trace({n}, {0}), trace_clear_excess_bits)
    ELSE IF n = 0 THEN Trace({}, {})
    ELSE LET n_block == n \div block_size
             R_shift == n % block_size
             L_shift == block_size - R_shift
             rounds  == 0..(num_logical_blocks - 2 - n_block)
             moved   ==
                 IF R_shift = 0
                 THEN Trace({}, (n_block..(num_logical_blocks - 1))
                                    \cup (0..(num_logical_blocks - 1 - n_block)))
                 ELSE Trace({R_shift} \cup (IF rounds # {} THEN {L_shift} ELSE {}),
                            UNION {{i, i + n_block, i + n_block + 1} : i \in rounds}
                                \cup {num_logical_blocks - 1 - n_block,
                                      num_logical_blocks - 1})
         IN  Then(Then(moved,
                       Trace({}, (num_logical_blocks - n_block)
                                     ..(num_logical_blocks - 1))),
                  trace_clear_excess_bits)

\* operator>>=(n)
trace_shift_right(n) ==
    IF num_logical_blocks = 1 THEN Trace({n}, {0})
    ELSE IF n = 0 THEN Trace({}, {})
    ELSE LET n_block == n \div block_size
             L_shift == n % block_size
             R_shift == block_size - L_shift
             rounds  == (n_block + 1)..(num_logical_blocks - 1)
             moved   ==
                 IF L_shift = 0
                 THEN Trace({}, (0..(num_logical_blocks - 1 - n_block))
                                    \cup (n_block..(num_logical_blocks - 1)))
                 ELSE Trace({L_shift} \cup (IF rounds # {} THEN {R_shift} ELSE {}),
                            UNION {{i, i - n_block, i - n_block - 1} : i \in rounds}
                                \cup {n_block, 0})
         IN  Then(moved, Trace({}, 0..(n_block - 1)))

\* A container whose calls are recorded with what they did to the words.
Traced(d, name, arg, t) ==
    /\ m_data' = d
    /\ ret' = Call(name, arg, FALSE, t)
    /\ UNCHANGED <<M, block_size, other, elems, it>>

TraceInsert(x) == is_valid(x) /\ Traced(insert(m_data, x).data, "insert", x, trace_mask(x))

TraceErase(x) == is_valid(x) /\ Traced(erase(m_data, x).data, "erase", x, trace_mask(x))

TraceContains(x) == is_valid(x) /\ Traced(m_data, "contains", x, trace_mask(x))

TraceShiftLeft(n) ==
    is_valid(n) /\ Traced(shift_left(m_data, n), "shift_left", n, trace_shift_left(n))

TraceShiftRight(n) ==
    is_valid(n) /\ Traced(shift_right(m_data, n), "shift_right", n, trace_shift_right(n))

TraceFindFirst == Traced(m_data, "find_first", 0, trace_find_first(m_data))

TraceFindNext(n) ==
    is_range(n) /\ Traced(m_data, "find_next", n, trace_find_next(m_data, n))

TraceFindPrev(n) ==
    is_valid(n) /\ Traced(m_data, "find_prev", n, trace_find_prev(m_data, n))

TraceFront == ~empty(m_data) /\ Traced(m_data, "front", 0, trace_find_front(m_data))

TraceBack == ~empty(m_data) /\ Traced(m_data, "back", 0, trace_find_back(m_data))

NextTrace ==
    \/ \E x \in 0..(M - 1) : TraceInsert(x)
    \/ \E x \in 0..(M - 1) : TraceErase(x)
    \/ \E x \in 0..(M - 1) : TraceContains(x)
    \/ \E n \in 0..(M - 1) : TraceShiftLeft(n)
    \/ \E n \in 0..(M - 1) : TraceShiftRight(n)
    \/ TraceFindFirst
    \/ \E n \in 0..M : TraceFindNext(n)
    \/ \E n \in 0..(M - 1) : TraceFindPrev(n)
    \/ TraceFront
    \/ TraceBack

SpecTrace == Init /\ [][NextTrace]_vars

\* C27: every native shift of a word made by a call within its precondition
\* (single_bit_mask in contains, insert and erase; find_next; find_prev;
\* operator<<=; operator>>=) and by the mask no_excess_bits is by an amount
\* in [0, W-1]; and where a container of several words finds a zero offset
\* it shifts no word by it.
ShiftAmountsInWord ==
    /\ num_excess_bits \in 0..(block_size - 1)
    /\ ret.op # "none" =>
        /\ ret.result.shifts \subseteq 0..(block_size - 1)
        /\ (/\ num_logical_blocks >= 2
            /\ ret.op \in {"find_next", "find_prev", "shift_left", "shift_right"})
               => 0 \notin ret.result.shifts

\* operator<<= by a multiple of the word width, in a container of three words
\* or more, of two bits or more each: words are copied, none is shifted.
ShiftAmountsInWordWitness ==
    /\ ret.op = "shift_left"
    /\ num_logical_blocks >= 3
    /\ block_size >= 2
    /\ ret.arg = block_size
    /\ ret.result.shifts = {}
    /\ m_data # ZeroData

\* C28: for every shift count n with 0 <= n < N, and for every scan
\* (find_first, find_next, find_prev, find_front, find_back) and every
\* single-bit access called within its precondition, every slot of the word
\* array that is read or written has an index in [0, L-1].
IndicesInArray ==
    ret.op # "none" => ret.result.indices \subseteq 0..(num_logical_blocks - 1)

\* operator<<= by a count that lies in the last word and is no multiple of
\* the word width, touching the first and the last slot of several.
IndicesInArrayWitness ==
    /\ ret.op = "shift_left"
    /\ num_logical_blocks >= 2
    /\ block_size >= 2
    /\ ret.arg >= (num_logical_blocks - 1) * block_size
    /\ ret.arg % block_size # 0
    /\ {0, num_logical_blocks - 1} \subseteq ret.result.indices
    /\ m_data # ZeroData

-----------------------------------------------------------------------------
(* erase through iterators.                                                *)

\* erase(pos) that returns the iterator it was given
erase_pos_not_advanced(d, pos) ==
    IF pos = end \/ dereference(pos) = Aborted
    THEN [data |-> d, pos |-> Aborted]
    ELSE [data |-> erase(d, dereference(pos)).data, pos |-> pos]

\* erase(const_iterator pos): assert(pos != end()); erase(*pos++); return pos;
\* pos++ advances pos in the container as it is before the erase
erase_pos(d, pos) ==
    IF pos = end \/ increment_checked(d, pos) = Aborted
           \/ dereference(pos) = Aborted
    THEN [data |-> d, pos |-> Aborted]
    ELSE [data |-> erase(d, dereference(pos)).data,
          pos  |-> increment_checked(d, pos)]

RECURSIVE erase_for_each(_, _, _, _)
\* std::for_each(first, last, [&](auto const& x) { erase(x); }): the words
\* afterwards; steps caps the loop at one more round than there are values
erase_for_each(d, first, last, steps) ==
    IF first = last THEN d
    ELSE IF dereference(first) = Aborted \/ steps = 0 THEN d
    ELSE LET erased == erase(d, dereference(first)).data
         IN  erase_for_each(erased, increment_checked(erased, first), last,
                            steps - 1)

\* erase(const_iterator first, const_iterator last)
erase_range(d, first, last) ==
    [data |-> erase_for_each(d, first, last, M + 1), pos |-> last]

\* A container that is filled and then erased from through iterators: it is
\* the iterator passed as pos or first, and afterwards the one returned.
\* ret.result keeps the words as they were before the call.
ErasePos ==
    /\ it.m_bs = "this"
    /\ it.m_value # Aborted
    /\ it.m_value # end
    /\ m_data' = erase_pos(m_data, it.m_value).data
    /\ it' = Iterator(erase_pos(m_data, it.m_value).pos)
    /\ ret' = Call("erase_pos", <<it.m_value>>, FALSE, m_data)
    /\ UNCHANGED <<M, block_size, other, elems>>

\* last is an iterator of the container not before first: at a member, or end
EraseRange(last) ==
    /\ it.m_bs = "this"
    /\ it.m_value # Aborted
    /\ it.m_value <= last
    /\ IF last = end THEN TRUE ELSE contains(m_data, last)
    /\ m_data' = erase_range(m_data, it.m_value, last).data
    /\ it' = Iterator(erase_range(m_data, it.m_value, last).pos)
    /\ ret' = Call("erase_range", <<it.m_value, last>>, FALSE, m_data)
    /\ UNCHANGED <<M, block_size, other, elems>>

NextErase ==
    \/ \E x \in 0..(M - 1) : WalkInsert(x)
    \/ Begin
    \/ End
    \/ Increment
    \/ ErasePos
    \/ \E last \in 0..M : EraseRange(last)

SpecErase == Init /\ [][NextErase]_vars

\* C29: erase(pos) with pos at member p removes exactly p and returns an
\* iterator at the smallest member greater than p, or end(); erase(first,
\* last) removes exactly the members v with first <= v < last, leaves every
\* other member, and returns last.
EraseThroughIterators ==
    LET before == Members(ret.result)
    IN  /\ ret.op = "erase_pos" =>
            /\ Members(m_data) = before \ {ret.arg[1]}
            /\ ret.arg[1] \in before
            /\ it.m_value = Min({v \in before : v > ret.arg[1]} \cup {M})
        /\ ret.op = "erase_range" =>
            /\ Members(m_data) = before \ (ret.arg[1]..(ret.arg[2] - 1))
            /\ it.m_value = ret.arg[2]

\* erase(first, last) that removed two members or more from a container of
\* several words and left members on both sides of the range.
EraseThroughIteratorsWitness ==
    /\ ret.op = "erase_range"
    /\ num_logical_blocks >= 2
    /\ Cardinality(Members(ret.result) \ Members(m_data)) >= 2
    /\ \E v \in Members(m_data) : v < ret.arg[1]
    /\ \E v \in Members(m_data) : v >= ret.arg[2]

\* the values whose bits the k-th word of the bit string holds, the words
\* counted from the one with the smallest values
WordValues(k) == (k * block_size)..(k * block_size + block_size - 1)

\* C30, as stated: in a container of several words, slot 0 is the word with
\* the smallest values (value 0 is in slot 0) and slot L-1 the word with the
\* largest.
SlotZeroHoldsSmallest ==
    num_logical_blocks >= 2 =>
        /\ (m_data[0] # 0) <=> (elems \cap WordValues(0) # {})
        /\ (m_data[num_logical_blocks - 1] # 0) <=>
               (elems \cap WordValues(num_logical_blocks - 1) # {})

\* C30, amended: in a container of several words, slot L-1 is the word with
\* the smallest values (value 0 is in slot L-1) and slot 0 the word with the
\* largest; slot k is the word of the values of word L-1-k of the string.
SlotZeroHoldsLargest ==
    num_logical_blocks >= 2 =>
        \A k \in 0..(num_logical_blocks - 1) :
            (m_data[k] # 0) <=>
                (elems \cap WordValues(num_logical_blocks - 1 - k) # {})

\* value 0 inserted into a container of three words or more: the last slot
\* is written, slot 0 is not.
SlotZeroHoldsLargestWitness ==
    /\ num_logical_blocks >= 3
    /\ 0 \in elems
    /\ m_data[num_logical_blocks - 1] # 0
    /\ m_data[0] = 0

====
